---- MODULE Spec2Model ----
(***************************************************************************)
(* Model of the Kundli API (src/app.py): the request handlers of the       *)
(* service, with the /dasha_full handler unfolded into the steps of its    *)
(* two nested loops.                                                       *)
(*                                                                         *)
(* Units.  A longitude is an integer number of 1/10000 degree, so that the *)
(* literal 13.3333 of the code is the integer 133333 and 360 degrees is    *)
(* 3600000.  On every such point the floating-point expressions of the     *)
(* code (int(x / 13.3333), int(x / (13.3333 / 9)), int(x // 30)) agree     *)
(* with the integer divisions used here.  A datetime is an integer number  *)
(* of minutes since an epoch midnight (the handlers build datetimes from   *)
(* y, m, d, hr, mn, so a minute is their resolution); a date is a day      *)
(* number.  timedelta(days = n * 365.25) is n * 525960 minutes, and        *)
(* timedelta(days = a * (b / 120) * 365.25) is a * b * 4383 minutes for    *)
(* all weights a, b of the table (timedelta rounds to microseconds).       *)
(*                                                                         *)
(* The ephemeris (swe.calc_ut, swe.houses, swe.julday) and the geocoder    *)
(* (requests.get) are external: the longitude they return and the success  *)
(* of each lookup are inputs of the actions.  A request's ephemeris        *)
(* longitude stands for the longitude of every body of that request; the   *)
(* house cusps, the ascendant and the rounded longitudes of the responses  *)
(* are left out of the modelled dictionaries.                              *)
(***************************************************************************)
EXTENDS Integers, Sequences, FiniteSets, TLC

\* ------------------------------------------------------------------ bounds
MaxLonK == 51
LonStep == 70000
MaxBirth == 2
BirthStep == 1051

\* --------------------------------------------------------------- constants
FullCircle == 3600000
NakSpan == 133333
SignSpan == 300000
HalfCircle == 1800000
MinutesPerDay == 1440
MinutesPerYear == 525960
TotalYears == 120

VARIABLES endpoint, geo, lon_val, birth, chart_type, response,
          pc, moon_lon, nak_index, moon_lord, dasha_order, years_table,
          start_date, end_date, maha_years, lord_i, sub_j,
          antar_list, antar_start, maha_list

vars == <<endpoint, geo, lon_val, birth, chart_type, response,
          pc, moon_lon, nak_index, moon_lord, dasha_order, years_table,
          start_date, end_date, maha_years, lord_i, sub_j,
          antar_list, antar_start, maha_list>>

locals == <<moon_lon, nak_index, moon_lord, dasha_order, years_table,
            start_date, end_date, maha_years, lord_i, sub_j,
            antar_list, antar_start, maha_list>>

\* ------------------------------------------------------------------ inputs
EdgeLongitudes ==
    {0, 20000, 133332, 133333, 133334, 450000, 1200000,
     3599990, 3599991, 3599992, 3599999}

Longitudes ==
    EdgeLongitudes \cup {l \in {k * LonStep : k \in 0..MaxLonK} : l < FullCircle}

ChartLongitudes == {0, 450000, 3599992}

Births == {b * BirthStep : b \in 0..MaxBirth}

ChartTypes == {"D9", "D10", "D7", "D12", "D1"}

\* ---------------------------------------------------------- pure functions
RECURSIVE SumSeq(_)
SumSeq(s) == IF s = <<>> THEN 0 ELSE Head(s) + SumSeq(Tail(s))

nak_lords ==
    <<"Ketu", "Venus", "Sun", "Moon", "Mars", "Rahu", "Jupiter", "Saturn", "Mercury">>

LordSet == {nak_lords[k] : k \in 1..Len(nak_lords)}

\* list.index(x), 0-based as in Python
IndexOf(lord) == (CHOOSE k \in 1..Len(nak_lords) : nak_lords[k] = lord) - 1

YearsTableSaturn18 ==
    [l \in LordSet |->
        CASE l = "Ketu" -> 7 [] l = "Venus" -> 20 [] l = "Sun" -> 6
          [] l = "Moon" -> 10 [] l = "Mars" -> 7 [] l = "Rahu" -> 18
          [] l = "Jupiter" -> 16 [] l = "Saturn" -> 18 [] l = "Mercury" -> 17]

YearsTable ==
    [l \in LordSet |->
        CASE l = "Ketu" -> 7 [] l = "Venus" -> 20 [] l = "Sun" -> 6
          [] l = "Moon" -> 10 [] l = "Mars" -> 7 [] l = "Rahu" -> 18
          [] l = "Jupiter" -> 16 [] l = "Saturn" -> 19 [] l = "Mercury" -> 17]

\* int((moon_lon % 360) / 13.3333)
NakIndex(lon) == (lon % FullCircle) \div NakSpan

\* nak_lords[nak_index % 9]
MoonLord(idx) == nak_lords[(idx % 9) + 1]

DashaOrderUnrotated(lord) == nak_lords

DashaOrderDropFirst(lord) ==
    SubSeq(nak_lords, IndexOf(lord) + 2, Len(nak_lords))
        \o SubSeq(nak_lords, 1, IndexOf(lord))

\* nak_lords[i:] + nak_lords[:i] with i = nak_lords.index(moon_lord)
DashaOrder(lord) ==
    SubSeq(nak_lords, IndexOf(lord) + 1, Len(nak_lords))
        \o SubSeq(nak_lords, 1, IndexOf(lord))

\* timedelta(days = maha_years * 365.25), in minutes
MahaDelta(years) == years * MinutesPerYear

AntarDeltaPercent(years, subyears) == (years * subyears * MinutesPerYear) \div 100

\* timedelta(days = maha_years * (years_table[sublord] / 120) * 365.25)
AntarDelta(years, subyears) == (years * subyears * MinutesPerYear) \div TotalYears

AntarEndWholeDays(start, years, subyears) ==
    start + (AntarDelta(years, subyears) \div MinutesPerDay) * MinutesPerDay

\* antar_start + timedelta(days = antar_duration * 365.25)
AntarEnd(start, years, subyears) == start + AntarDelta(years, subyears)

\* datetime.date()
Date(dt) == dt \div MinutesPerDay

rashis ==
    <<"Aries", "Taurus", "Gemini", "Cancer", "Leo", "Virgo", "Libra",
      "Scorpio", "Sagittarius", "Capricorn", "Aquarius", "Pisces">>

rashi_lords ==
    <<"Mars", "Venus", "Mercury", "Moon", "Sun", "Mercury", "Venus",
      "Mars", "Jupiter", "Saturn", "Saturn", "Jupiter">>

\* get_rashi_lord: sign_index = int(longitude // 30) % 12
get_rashi_lord(longitude) ==
    LET sign_index == (longitude \div SignSpan) % 12
    IN  [rashi |-> rashis[sign_index + 1], lord |-> rashi_lords[sign_index + 1]]

\* get_kp_lords: nak_index = int((longitude % 360) / (13.3333 / 9)) % 9
get_kp_lords(longitude) ==
    LET kp_index == (((longitude % FullCircle) * 9) \div NakSpan) % 9
    IN  [star_lord |-> nak_lords[kp_index + 1],
         sub_lord |-> nak_lords[((kp_index + 3) % 9) + 1]]

PlanetNames ==
    {"Sun", "Moon", "Mars", "Mercury", "Jupiter", "Venus", "Saturn", "Rahu", "Ketu"}

\* lon_val of a body: the ephemeris value, and (lon_val + 180) % 360 for Ketu
PlanetLon(p, lon) == IF p = "Ketu" THEN (lon + HalfCircle) % FullCircle ELSE lon

\* the dictionary kundli() returns; found is the outcome of its city lookup
Kundli(found, lon, b) ==
    IF ~found
    THEN [error |-> "Invalid city."]
    ELSE [Local_Time_IST |-> b,
          Planets |-> [p \in PlanetNames |-> get_rashi_lord(PlanetLon(p, lon))]]

\* divisions.get(type.upper(), 9)
Divisions(type) ==
    CASE type = "D9" -> 9 [] type = "D10" -> 10 [] type = "D7" -> 7
      [] type = "D12" -> 12 [] OTHER -> 9

\* one entry of the divisional chart
DivisionalEntry(lon, div) ==
    LET sign_index == lon \div SignSpan
        div_no == ((lon % SignSpan) * div) \div SignSpan
    IN  [Division_No |-> div_no + 1,
         Divisional_Rashi |-> rashis[((sign_index * div + div_no) % 12) + 1]]

Ok(b) == [kind |-> "ok", body |-> b]
Error(msg) == [kind |-> "error", body |-> [error |-> msg]]
Exception(e) == [kind |-> "exception", body |-> e]

\* ------------------------------------------------------------------- state
NoTable == [l \in {} |-> 0]

TypeOK ==
    /\ pc \in {"idle", "maha_loop", "antar_loop"}
    /\ endpoint \in {"home", "city_lookup", "kundli", "kp_kundli", "dasha_full",
                     "divisional_chart", "transit_chart", "generate_pdf"}
    /\ geo \in Seq(BOOLEAN)
    /\ response.kind \in {"ok", "error", "exception", "file", "pending"}

Init ==
    /\ endpoint = "home"
    /\ geo = <<>>
    /\ lon_val = 0
    /\ birth = 0
    /\ chart_type = ""
    /\ response = Ok([message |-> "running"])
    /\ pc = "idle"
    /\ moon_lon = 0
    /\ nak_index = 0
    /\ moon_lord = ""
    /\ dasha_order = <<>>
    /\ years_table = NoTable
    /\ start_date = 0
    /\ end_date = 0
    /\ maha_years = 0
    /\ lord_i = 0
    /\ sub_j = 0
    /\ antar_list = <<>>
    /\ antar_start = 0
    /\ maha_list = <<>>

\* the return of a handler that runs in one step (every one but dasha_full)
Reply(ep, calls, lon, b, type, resp) ==
    /\ endpoint' = ep
    /\ geo' = calls
    /\ lon_val' = lon
    /\ birth' = b
    /\ chart_type' = type
    /\ response' = resp
    /\ UNCHANGED <<pc, locals>>

home ==
    /\ pc = "idle"
    /\ Reply("home", <<>>, 0, 0, "", Ok([message |-> "running"]))

city_lookup ==
    /\ pc = "idle"
    /\ \E found \in BOOLEAN :
        Reply("city_lookup", <<found>>, 0, 0, "",
               IF found THEN Ok([City |-> "city"]) ELSE Error("City not found."))

kundli ==
    /\ pc = "idle"
    /\ \E found \in BOOLEAN, lon \in ChartLongitudes, b \in Births :
        LET result == Kundli(found, lon, b)
        IN  Reply("kundli", <<found>>, lon, b, "",
                   IF found THEN Ok(result) ELSE Error(result.error))

kp_kundli ==
    /\ pc = "idle"
    /\ \E found \in BOOLEAN, lon \in Longitudes :
        Reply("kp_kundli", <<found>>, lon, 0, "",
               IF ~found
               THEN Error("Invalid city.")
               ELSE Ok([KP_Planets |->
                          [p \in PlanetNames |->
                              [Rashi |-> get_rashi_lord(PlanetLon(p, lon)).rashi,
                               Sign_Lord |-> get_rashi_lord(PlanetLon(p, lon)).lord,
                               Star_Lord |-> get_kp_lords(PlanetLon(p, lon)).star_lord,
                               Sub_Lord |-> get_kp_lords(PlanetLon(p, lon)).sub_lord]]]))

divisional_chart ==
    /\ pc = "idle"
    /\ \E found \in BOOLEAN, lon \in ChartLongitudes, type \in ChartTypes :
        Reply("divisional_chart", <<found>>, lon, 0, type,
               IF ~found
               THEN Error("Invalid city")
               ELSE Ok([Type |-> type,
                        Chart |-> [p \in PlanetNames |->
                                      DivisionalEntry(PlanetLon(p, lon), Divisions(type))]]))

\* natal = kundli(...) is used without a test for its error dictionary
transit_chart ==
    /\ pc = "idle"
    /\ \E found \in BOOLEAN, lon \in ChartLongitudes, b \in Births, now_lon \in ChartLongitudes :
        LET natal == Kundli(found, lon, b)
        IN  Reply("transit_chart", <<found>>, lon, b, "",
                   IF "Planets" \in DOMAIN natal
                   THEN Ok([Transit |->
                              [p \in PlanetNames |->
                                  [Transit_Rashi |-> get_rashi_lord(PlanetLon(p, now_lon)).rashi,
                                   Natal_Rashi |-> natal.Planets[p].rashi]]])
                   ELSE Exception("KeyError: 'Planets'"))

\* the city is looked up twice: by generate_pdf itself, then inside kundli()
generate_pdf ==
    /\ pc = "idle"
    /\ \E found \in BOOLEAN, lon \in ChartLongitudes, b \in Births :
        \/ /\ ~found
           /\ Reply("generate_pdf", <<found>>, lon, b, "", Error("Invalid city"))
        \/ /\ found
           /\ \E found2 \in BOOLEAN :
                LET kundli_data == Kundli(found2, lon, b)
                IN  Reply("generate_pdf", <<found, found2>>, lon, b, "",
                           IF "Local_Time_IST" \in DOMAIN kundli_data
                           THEN [kind |-> "file", body |-> "kundli_report_city.pdf"]
                           ELSE Exception("KeyError: 'Local_Time_IST'"))

\* ------------------------------------------------------- /dasha_full, steps
\* lines 165-182: city lookup, Moon longitude, nakshatra lord, rotation, table
dasha_full_begin ==
    /\ pc = "idle"
    /\ \E found \in BOOLEAN, lon \in Longitudes, b \in Births :
        /\ endpoint' = "dasha_full"
        /\ geo' = <<found>>
        /\ lon_val' = lon
        /\ birth' = b
        /\ chart_type' = ""
        /\ \/ /\ ~found
              /\ response' = Error("Invalid city")
              /\ UNCHANGED <<pc, locals>>
           \/ /\ found
              /\ response' = [kind |-> "pending", body |-> <<>>]
              /\ moon_lon' = lon
              /\ nak_index' = NakIndex(lon)
              /\ moon_lord' = MoonLord(NakIndex(lon))
              /\ dasha_order' = DashaOrder(MoonLord(NakIndex(lon)))
              /\ years_table' = YearsTable
              /\ start_date' = b
              /\ maha_list' = <<>>
              /\ lord_i' = 1
              /\ pc' = "maha_loop"
              /\ UNCHANGED <<end_date, maha_years, sub_j, antar_list, antar_start>>

\* lines 184-188: head of one iteration of "for lord in dasha_order"
maha_begin ==
    /\ pc = "maha_loop"
    /\ lord_i <= Len(dasha_order)
    /\ maha_years' = years_table[dasha_order[lord_i]]
    /\ end_date' = start_date + MahaDelta(years_table[dasha_order[lord_i]])
    /\ antar_list' = <<>>
    /\ antar_start' = start_date
    /\ sub_j' = 1
    /\ pc' = "antar_loop"
    /\ UNCHANGED <<endpoint, geo, lon_val, birth, chart_type, response,
                   moon_lon, nak_index, moon_lord, dasha_order, years_table,
                   start_date, lord_i, maha_list>>

\* lines 190-198: one iteration of "for sublord in dasha_order"
antar_step ==
    /\ pc = "antar_loop"
    /\ sub_j <= Len(dasha_order)
    /\ LET sublord == dasha_order[sub_j]
           antar_end == AntarEnd(antar_start, maha_years, years_table[sublord])
       IN  /\ antar_list' = Append(antar_list,
                                   [Antar_Lord |-> sublord,
                                    Start |-> Date(antar_start),
                                    End |-> Date(antar_end)])
           /\ antar_start' = antar_end
    /\ sub_j' = sub_j + 1
    /\ UNCHANGED <<endpoint, geo, lon_val, birth, chart_type, response, pc,
                   moon_lon, nak_index, moon_lord, dasha_order, years_table,
                   start_date, end_date, maha_years, lord_i, maha_list>>

\* lines 200-206: the Mahadasha is appended and the running start moves on
maha_append ==
    /\ pc = "antar_loop"
    /\ sub_j > Len(dasha_order)
    /\ maha_list' = Append(maha_list,
                           [Maha_Lord |-> dasha_order[lord_i],
                            Start |-> Date(start_date),
                            End |-> Date(end_date),
                            Antar_Dasha |-> antar_list])
    /\ start_date' = end_date
    /\ lord_i' = lord_i + 1
    /\ pc' = "maha_loop"
    /\ UNCHANGED <<endpoint, geo, lon_val, birth, chart_type, response,
                   moon_lon, nak_index, moon_lord, dasha_order, years_table,
                   end_date, maha_years, sub_j, antar_list, antar_start>>

\* line 208: the response is returned and the frame of the call is gone
dasha_full_return ==
    /\ pc = "maha_loop"
    /\ lord_i > Len(dasha_order)
    /\ response' = Ok([Nakshatra_Lord |-> moon_lord,
                       Full_Vimshottari_Dasha |-> maha_list])
    /\ pc' = "idle"
    /\ moon_lon' = 0
    /\ nak_index' = 0
    /\ moon_lord' = ""
    /\ dasha_order' = <<>>
    /\ years_table' = NoTable
    /\ start_date' = 0
    /\ end_date' = 0
    /\ maha_years' = 0
    /\ lord_i' = 0
    /\ sub_j' = 0
    /\ antar_list' = <<>>
    /\ antar_start' = 0
    /\ maha_list' = <<>>
    /\ UNCHANGED <<endpoint, geo, lon_val, birth, chart_type>>

Next ==
    \/ home
    \/ city_lookup
    \/ kundli
    \/ kp_kundli
    \/ divisional_chart
    \/ transit_chart
    \/ generate_pdf
    \/ dasha_full_begin
    \/ maha_begin
    \/ antar_step
    \/ maha_append
    \/ dasha_full_return

Spec == Init /\ [][Next]_vars

\* ------------------------------------------------------------------ claims
\* the nakshatra span 360/27 degrees, times 3 (an integer number of units)
TrueSpan3 == FullCircle \div 9

\* floor(normalized / (360/27))
TrueNakIndex(lon) == ((lon % FullCircle) * 3) \div TrueSpan3

\* fractionElapsed = FractionRem / TrueSpan3
FractionRem(lon) == ((lon % FullCircle) * 3) % TrueSpan3

\* <<q, r>> with a * b = q * c + r and 0 <= r < c, without forming a * b
RECURSIVE MulDivRem(_, _, _)
MulDivRem(a, b, c) ==
    IF b = 0
    THEN <<0, 0>>
    ELSE LET h == MulDivRem(a, b \div 2, c)
             r == 2 * h[2] + a * (b % 2)
         IN  <<2 * h[1] + r \div c, r % c>>

\* (1 - fractionElapsed) * weight years, in minutes (rounded down)
RemainingMinutes(lon, weight) ==
    MulDivRem(weight * MinutesPerYear, TrueSpan3 - FractionRem(lon), TrueSpan3)[1]

Abs(x) == IF x < 0 THEN -x ELSE x

Computing == pc # "idle"
InnerDone == pc = "antar_loop" /\ sub_j > Len(dasha_order)
OuterDone == pc = "maha_loop" /\ lord_i > Len(dasha_order)
DashaReplied == pc = "idle" /\ endpoint = "dasha_full" /\ response.kind = "ok"

\* the lord that follows lord by k places in the cycle
CycleFrom(lord, k) == nak_lords[((IndexOf(lord) + k) % Len(nak_lords)) + 1]

\* C1: the first Mahadasha lasts (1 - fractionElapsed) * weight(lord) years of
\* 365.25 days, every later one its lord's full weight, and the nine together
\* span the remaining part of the first plus 120 - weight(first lord) years.
C1_FirstMahaIsRemainder ==
    /\ pc = "antar_loop" =>
          IF lord_i = 1
          THEN Abs((end_date - start_date)
                     - RemainingMinutes(moon_lon, years_table[dasha_order[1]])) <= 1
          ELSE end_date - start_date = years_table[dasha_order[lord_i]] * MinutesPerYear
    /\ OuterDone =>
          Abs((start_date - birth)
                - (RemainingMinutes(moon_lon, years_table[dasha_order[1]])
                     + (TotalYears - years_table[dasha_order[1]]) * MinutesPerYear)) <= 1

\* self-first order of one Mahadasha's Antar_Dasha list
SelfFirst(maha) ==
    /\ maha.Antar_Dasha[1].Antar_Lord = maha.Maha_Lord
    /\ \A k \in 1..Len(maha.Antar_Dasha) :
          maha.Antar_Dasha[k].Antar_Lord = CycleFrom(maha.Maha_Lord, k - 1)

\* C2: in every Mahadasha of the output the Antar_Dasha list begins with the
\* Mahadasha's own lord and continues in the cyclic order from that lord.
C2_AntarSelfFirst ==
    /\ Computing => \A i \in 1..Len(maha_list) : SelfFirst(maha_list[i])
    /\ DashaReplied =>
          \A i \in 1..Len(response.body.Full_Vimshottari_Dasha) :
              SelfFirst(response.body.Full_Vimshottari_Dasha[i])

\* C3: the nakshatra index computed in dasha_full is floor(normalized/(360/27)),
\* lies in 0..26, and Nakshatra_Lord is the cycle entry at that index mod 9.
C3_NakIndexIsTrueIndex ==
    Computing =>
        /\ nak_index = TrueNakIndex(moon_lon)
        /\ nak_index \in 0..26
        /\ moon_lord = nak_lords[(TrueNakIndex(moon_lon) % 9) + 1]

\* the Antardasha entries of one Mahadasha each carry nine Pratyantardashas
ThreeLevels(maha) ==
    /\ Len(maha.Antar_Dasha) = 9
    /\ \A k \in 1..Len(maha.Antar_Dasha) :
          /\ "Pratyantar_Dasha" \in DOMAIN maha.Antar_Dasha[k]
          /\ Len(maha.Antar_Dasha[k].Pratyantar_Dasha) = 9

TwoLevels(maha) ==
    /\ DOMAIN maha = {"Maha_Lord", "Start", "End", "Antar_Dasha"}
    /\ Len(maha.Antar_Dasha) = 9
    /\ \A k \in 1..Len(maha.Antar_Dasha) :
          DOMAIN maha.Antar_Dasha[k] = {"Antar_Lord", "Start", "End"}

RotationFrom(list, lord) ==
    /\ Len(list) = 9
    /\ {list[k].Maha_Lord : k \in 1..Len(list)} = LordSet
    /\ list[1].Maha_Lord = lord
    /\ \A k \in 1..Len(list) : list[k].Maha_Lord = CycleFrom(lord, k - 1)

\* C5: the Mahadasha sequence has exactly 9 periods, whose lords are a
\* permutation of the nine lords, begin with the reported Nakshatra_Lord and
\* follow the fixed cyclic order rotated to it (Moon, Mars, Rahu, Jupiter,
\* Saturn, Mercury, Ketu, Venus, Sun for Moon longitude 45.0).
C5_MahaRotation ==
    /\ OuterDone =>
          /\ RotationFrom(maha_list, moon_lord)
          /\ moon_lon = 450000 =>
                [k \in 1..9 |-> maha_list[k].Maha_Lord]
                    = <<"Moon", "Mars", "Rahu", "Jupiter", "Saturn",
                        "Mercury", "Ketu", "Venus", "Sun">>
    /\ DashaReplied =>
          RotationFrom(response.body.Full_Vimshottari_Dasha,
                       response.body.Nakshatra_Lord)

C5_Witness ==
    /\ OuterDone
    /\ moon_lon = 450000
    /\ maha_list[9].Maha_Lord = "Sun"

\* C6: the durations of the nine Antardasha children of a Mahadasha sum to the
\* Mahadasha's duration.
C6_ChildSum ==
    pc = "antar_loop" =>
        /\ SumSeq([k \in 1..Len(dasha_order) |->
                      AntarDelta(maha_years, years_table[dasha_order[k]])])
             = end_date - start_date
        /\ end_date - start_date = maha_years * MinutesPerYear

C6_Witness ==
    /\ InnerDone
    /\ lord_i = 5
    /\ antar_start > start_date

\* the Antardasha children of one Mahadasha tile its interval
Tiled(maha) ==
    /\ maha.Antar_Dasha[1].Start = maha.Start
    /\ \A k \in 1..(Len(maha.Antar_Dasha) - 1) :
          maha.Antar_Dasha[k].End = maha.Antar_Dasha[k + 1].Start
    /\ maha.Antar_Dasha[Len(maha.Antar_Dasha)].End = maha.End

\* C7: the Antardasha children tile the parent interval: the first starts at
\* the parent's start, each ends where the next starts (the running start is
\* the previous end), and the last ends at the parent's end, which is the
\* parent's start plus its duration in years of 365.25 days.
C7_Contiguity ==
    /\ pc = "antar_loop" =>
          /\ antar_list # <<>> =>
                /\ antar_list[1].Start = Date(start_date)
                /\ antar_list[Len(antar_list)].End = Date(antar_start)
          /\ \A k \in 1..(Len(antar_list) - 1) :
                antar_list[k].End = antar_list[k + 1].Start
          /\ InnerDone =>
                /\ antar_start = end_date
                /\ antar_start = start_date + maha_years * MinutesPerYear
                /\ antar_list[Len(antar_list)].End = Date(end_date)
    /\ Computing => \A i \in 1..Len(maha_list) : Tiled(maha_list[i])
    /\ DashaReplied =>
          \A i \in 1..Len(response.body.Full_Vimshottari_Dasha) :
              Tiled(response.body.Full_Vimshottari_Dasha[i])

C7_Witness ==
    /\ InnerDone
    /\ lord_i = 3
    /\ Len(antar_list) = 9
    /\ antar_list[9].End > antar_list[1].Start

\* C8: the year-weights are Ketu 7, Venus 20, Sun 6, Moon 10, Mars 7, Rahu 18,
\* Jupiter 16, Saturn 19, Mercury 17, they sum to 120, every lord of the cycle
\* has an entry, and the table stays so throughout a computation.
C8_WeightClosure ==
    Computing =>
        /\ DOMAIN years_table = LordSet
        /\ [k \in 1..Len(nak_lords) |-> years_table[nak_lords[k]]]
             = <<7, 20, 6, 10, 7, 18, 16, 19, 17>>
        /\ SumSeq([k \in 1..Len(nak_lords) |-> years_table[nak_lords[k]]]) = 120

C8_Witness ==
    /\ pc = "antar_loop"
    /\ lord_i = 9
    /\ sub_j = 9

CityEndpoints ==
    {"city_lookup", "kundli", "kp_kundli", "dasha_full", "divisional_chart",
     "transit_chart", "generate_pdf"}

\* C9: whenever a city lookup made during a request reports not-found, the
\* endpoint returns an error value and raises no unhandled exception.
C9_NotFoundIsError ==
    (/\ pc = "idle"
     /\ endpoint \in CityEndpoints
     /\ \E k \in 1..Len(geo) : ~geo[k]) => response.kind = "error"

\* C10: the Star_Lord of get_kp_lords is the lord dasha_full derives for the
\* same longitude, nak_lords[nakshatra index mod 9].
C10_StarLordIsNakshatraLord ==
    (pc = "idle" /\ endpoint = "kp_kundli" /\ response.kind = "ok") =>
        \A p \in PlanetNames :
            response.body.KP_Planets[p].Star_Lord
                = MoonLord(NakIndex(PlanetLon(p, lon_val)))

====
